---------------------------- MODULE Spec2Model ----------------------------
(***************************************************************************)
(* The reliability layer of the claim service: ClaimService.create_claim   *)
(* (idempotency lookup, claim insert, outbox publish, idempotency insert)  *)
(* running concurrently with the outbox sweep process_outbox_events.       *)
(* The policy service's publisher is the same code with other names.      *)
(*                                                                         *)
(* Every call to DynamoDB or SNS is one atomic step that may fail; the     *)
(* steps of concurrent requests and of the sweep interleave freely.        *)
(* Identifiers drawn with uuid4 are modelled as fresh: the claim and the   *)
(* outbox event of request r carry the identifier r.  Request bodies are   *)
(* JSON-serialisable values.  A value read from datetime.utcnow() is the   *)
(* instant of the call that read it, named by the caller: two calls never  *)
(* read the same instant.                                                  *)
(*                                                                         *)
(* The gateway's resilient call path: ResilientServiceClient               *)
(* ._make_request_with_retry with its CircuitBreaker, called concurrently  *)
(* on one client (BreakerSpec) and by the gateway's request handlers, each *)
(* of which gets its clients from get_gateway_service (GatewaySpec).  The  *)
(* calls are coroutines on one event loop: a call runs without             *)
(* interruption from one await to the next.                                *)
(***************************************************************************)
EXTENDS Integers, Sequences, FiniteSets, TLC

\* ------------------------------------------------------------------ bounds
DeliveryCap == 2        \* deliveries per event are counted up to this

MaxTicks == 3           \* the event loop's clock advances at most this often
MaxFailures == 7        \* failure_count is counted up to this
Sub == 2                \* clock ticks per second of time.time()
MaxClock == 8           \* time.time() advances up to this tick
MaxChecks == 4          \* is_allowed calls made one at a time
MaxBatch == 2           \* SQS records in one invocation of the ingest handler

\* ------------------------------------------------------- program constants
ScanLimit == 10         \* Limit=10 of the sweep's scan
failure_threshold == 5  \* CircuitBreaker.__init__
recovery_timeout == 60  \* CircuitBreaker.__init__, seconds
max_retries == 3        \* ResilientServiceClient.__init__

Reqs == {1, 2}          \* the concurrent create_claim requests
FirstOld == Cardinality(Reqs) + 1   \* identifiers of the earlier requests
OldIds(n) == FirstOld..(FirstOld + n - 1)
EventIds == Reqs \cup OldIds(ScanLimit)
Tokens == {"tok-1"}
NoKey == "none"
Bodies == {"body-a", "body-b"}
OldBody == "body-old"
NoTime == <<"never", 0>>
NoClaim == 0
PublishOutcomes == {"ok", "invalid", "sns_error", "no_message_id"}

VARIABLES
  claims,          \* claims table: claim id -> request body
  outbox,          \* outbox table: event id -> item
  scanOrder,       \* the order in which a scan of the outbox table meets the items
  idem,            \* idempotency table: PK -> item
  topic,           \* SNS topic: event id -> number of messages accepted for it
  attempted,       \* event ids for which publish_event was called
  req,             \* the create_claim requests
  sweepPc,         \* process_outbox_events: "idle" | "publish" | "mark"
  sweepItems,      \* the scanned items still to handle
  processed_count, \* the sweep's counter
  now,             \* the gateway's event loop time, seconds
  circuit_breaker, \* client -> the CircuitBreaker of that ResilientServiceClient
  call,            \* the _make_request_with_retry calls
  target_failures, \* gateway requests to the target that failed in a row
  clock,           \* time.time(), in ticks of 1/Sub second
  rl_limit,        \* the limit argument of the is_allowed calls
  rl_window,       \* the window argument of the is_allowed calls, seconds
  requests,        \* MemoryRateLimiter.requests[key]: the deque of timestamps
  zkey,            \* the Redis sorted set rate_limit:<key> and its expiry
  check,           \* the RedisRateLimiter.is_allowed calls in flight
  decisions,       \* the checks made one at a time: time and both decisions
  records,         \* the SQS records of the ingest handler's invocation
  outcomes,        \* what the handler did with each record it has handled
  failures,        \* the handler's list of failed items
  bronze,          \* the S3 bronze bucket: the records whose event is stored
  indexed,         \* OpenSearch: the records whose document is indexed
  batch_response   \* the handler's return value

claimsvc == <<claims, outbox, scanOrder, idem, topic, attempted, req,
              sweepPc, sweepItems, processed_count>>
breaker == <<now, circuit_breaker, call, target_failures>>
limiter == <<clock, rl_limit, rl_window, requests, zkey, check, decisions>>
gateway == <<breaker, limiter>>
ingest == <<records, outcomes, failures, bronze, indexed, batch_response>>
vars == <<claimsvc, gateway, ingest>>

\* ----------------------------------------------------------------- helpers
Min(a, b) == IF a < b THEN a ELSE b

\* f extended or overwritten at k
Put(f, k, v) == [x \in (DOMAIN f) \cup {k} |-> IF x = k THEN v ELSE f[x]]

\* s with e inserted before position p (1..Len(s)+1)
InsertAt(s, p, e) == SubSeq(s, 1, p - 1) \o <<e>> \o SubSeq(s, p, Len(s))

\* sha256(json.dumps(request_data, sort_keys=True)).hexdigest()[:16] of the three
\* request bodies: {"amount": A, "category": "auto", "customer_id":
\* "CUST-DEMO0001", "description": null, "occurred_at": "2024-01-15T10:30:00",
\* "policy_id": "POL-AB12CD34", "status": "open"} with A = 100.0 (body-a),
\* 250.0 (body-b) and 75.0 (body-old)
request_hash(request_data) ==
  CASE request_data = "body-a" -> "03528a17d3c29530"
    [] request_data = "body-b" -> "639c59b50f9a69d5"
    [] request_data = "body-old" -> "fd403a55baa13241"

\* generate_key without the digest of the body: the token alone
GenerateKeyTokenOnly(idempotency_key, request_data) ==
  <<"IDEM", idempotency_key, "">>

\* IdempotencyManager.generate_key: "IDEM#<token>#<digest>"; the token is
\* delimited by the prefix and by the 16 digits of the digest
generate_key(idempotency_key, request_data) ==
  <<"IDEM", idempotency_key, request_hash(request_data)>>

\* OutboxEvent as written by _store_outbox_event
OutboxItem(event_id, claim_id, created_at) ==
  [eventId |-> event_id, eventType |-> "ClaimCreated", claim |-> claim_id,
   createdAt |-> created_at, published |-> FALSE, publishedAt |-> NoTime]

OldItem(k) ==
  [eventId |-> k, eventType |-> "ClaimCreated", claim |-> k,
   createdAt |-> <<"store", k>>, published |-> TRUE, publishedAt |-> <<"inline", k>>]

NewReq ==
  [pc |-> "idle", key |-> NoKey, body |-> OldBody, claim |-> NoClaim,
   started_after |-> {}, lookup |-> "none", pub |-> "none",
   stored |-> "none", status |-> "none", response |-> NoClaim]

\* ---------------------------------------------------------- gateway: state
Calls == {1, 2}         \* the coroutines that call _make_request_with_retry
SharedClient == <<"shared", 0>>      \* a client that several callers hold
RequestClient(c) == <<"request", c>> \* the client built for the request of c
Clients == {SharedClient} \cup {RequestClient(c) : c \in Calls}
None == 0               \* last_failure_time before the first failure
Responses == {"ok", "http_4xx", "http_5xx", "network_error"}

\* CircuitBreaker.__init__
CircuitBreaker ==
  [state |-> "CLOSED", failure_count |-> 0, last_failure_time |-> None]

\* a coroutine that has not called yet
NewCall ==
  [pc |-> "idle", client |-> SharedClient, attempt |-> 0, sent |-> 0,
   gate |-> "none", delay |-> 0, error |-> "none", result |-> "none"]

\* the service clients after start-up
BreakerInit ==
  /\ now = 1
  /\ circuit_breaker = [k \in Clients |-> CircuitBreaker]
  /\ call = [c \in Calls |-> NewCall]
  /\ target_failures = 0

\* one key: MemoryRateLimiter keeps one deque per key and RedisRateLimiter one
\* sorted set per key, and no operation touches two keys
Checks == {1, 2, 3}
Limits == {1, 2}
Windows == {1, 2}

\* a sorted set that does not exist
EmptyKey == [members |-> {}, expire_at |-> None]

\* an is_allowed call on the Redis backend that has not started
NewCheck == [pc |-> "idle", now |-> 0, allowed |-> "none", error |-> FALSE]

\* the limiters after construction, checked with limit l and window w
LimiterStart(l, w) ==
  /\ clock = 0
  /\ rl_limit = l
  /\ rl_window = w
  /\ requests = <<>>
  /\ zkey = EmptyKey
  /\ check = [i \in Checks |-> NewCheck]
  /\ decisions = <<>>

\* the gateway process after start-up
GatewayInit ==
  /\ BreakerInit
  /\ LimiterStart(1, 1)

\* -------------------------------------------------------- ingest: state
\* What an SQS record can carry. The body is the SNS envelope as JSON text and
\* its Message the event as JSON text:
\*   bad_body        the body is not JSON
\*   bad_message     the Message is not JSON
\*   empty           the event is {}
\*   not_object      the event is a JSON value other than an object, as [1]
\*   unknown_type    an object whose eventType has no schema
\*   invalid_schema  an object of a known eventType that violates its schema
\*   policy, claim   a Policy* / Claim* event that conforms to its schema
Kinds == {"bad_body", "bad_message", "empty", "not_object", "unknown_type",
          "invalid_schema", "policy", "claim"}
NoResponse == <<"none">>

\* the batches SQS can hand to one invocation: record i has messageId i
Batches ==
  UNION {[1..n -> Kinds] : n \in 1..MaxBatch}

\* no invocation of the ingest handler yet
IngestIdle ==
  /\ records = <<>>
  /\ outcomes = <<>>
  /\ failures = <<>>
  /\ bronze = {}
  /\ indexed = {}
  /\ batch_response = NoResponse

\* ------------------------------------------------------------------- Init
\* The tables as n earlier requests (without idempotency key) left them, each
\* having stored its claim and published its event.
Tables(n) ==
  /\ claims = [k \in OldIds(n) |-> OldBody]
  /\ outbox = [k \in OldIds(n) |-> OldItem(k)]
  /\ scanOrder = [i \in 1..n |-> FirstOld + i - 1]
  /\ idem = <<>>
  /\ topic = [e \in EventIds |-> IF e \in OldIds(n) THEN 1 ELSE 0]
  /\ attempted = OldIds(n)
  /\ sweepPc = "idle"
  /\ sweepItems = <<>>
  /\ processed_count = 0

\* a fresh deployment: empty tables, no request yet
Init ==
  /\ Tables(0)
  /\ req = [r \in Reqs |-> NewReq]
  /\ GatewayInit
  /\ IngestIdle

\* ------------------------------------------------ stores and topic: effects
\* IdempotencyManager.get_response: the stored response, or NoClaim (None) when
\* the item is absent or the read raised an exception that get_response catches
get_response(table, idempotency_key, request_data, read_ok) ==
  LET key == generate_key(idempotency_key, request_data) IN
  IF read_ok /\ key \in DOMAIN table THEN table[key].ResponseData ELSE NoClaim

\* IdempotencyManager.put_if_absent, the put_item with attribute_not_exists(PK)
IdemItem(idempotency_key, request_data, response_data, t) ==
  [IdempotencyKey |-> idempotency_key, RequestData |-> request_data,
   ResponseData |-> response_data, CreatedAt |-> t, TTL |-> "ahead"]

\* put_if_absent without the ConditionExpression: a plain put_item
PutIfAbsentOverwrite(table, idempotency_key, request_data, response_data, t) ==
  Put(table, generate_key(idempotency_key, request_data),
      IdemItem(idempotency_key, request_data, response_data, t))

put_if_absent(table, idempotency_key, request_data, response_data, t) ==
  LET key == generate_key(idempotency_key, request_data) IN
  IF key \in DOMAIN table
    THEN table
    ELSE Put(table, key, IdemItem(idempotency_key, request_data, response_data, t))

\* _store_outbox_event writing the item as already published
StoreOutboxEventPublished(table, event_id, claim_id, t) ==
  Put(table, event_id, [OutboxItem(event_id, claim_id, t) EXCEPT !.published = TRUE])

\* _store_outbox_event: a plain put_item of the new item
_store_outbox_event(table, event_id, claim_id, t) ==
  Put(table, event_id, OutboxItem(event_id, claim_id, t))

\* _mark_outbox_event_published: update_item SET published, publishedAt with no
\* condition (an update of a missing key creates the item)
_mark_outbox_event_published(table, event_id, t) ==
  IF event_id \in DOMAIN table
    THEN [table EXCEPT ![event_id].published = TRUE, ![event_id].publishedAt = t]
    ELSE Put(table, event_id, [eventId |-> event_id, published |-> TRUE, publishedAt |-> t])

\* the scan order after a write of event_id at place p: a new item takes a place
\* of its own, an existing one keeps its place
Placed(order, table, event_id, p) ==
  IF event_id \in DOMAIN table THEN order ELSE InsertAt(order, p, event_id)

\* str(uuid.uuid4()): a value that only the call drawing it obtains
uuid4(drawn_by) == <<"uuid4", drawn_by>>

\* the event_id that publish_claim_created gave the OutboxEvent stored under e
OutboxEventId(e) == uuid4(<<"publish_claim_created", e>>)

\* the envelopes of the messages that topic t accepted for outbox record e:
\* each publish_event call builds its envelope with an eventId of its own
Envelopes(t, e) ==
  {[eventId |-> uuid4(<<"publish_event", e, j>>), eventType |-> "ClaimCreated",
    eventVersion |-> 1, claim |-> e] : j \in 1..t[e]}

\* EventPublisher.publish_event: the topic after a call with the given outcome
publish_event(t, event_id, outcome) ==
  IF outcome = "ok" THEN [t EXCEPT ![event_id] = Min(@ + 1, DeliveryCap)] ELSE t

\* scan(FilterExpression published = false, Limit): the first Limit items in scan
\* order are read, and of those the unpublished ones are returned
Scan(order, table, limit) ==
  LET Unpublished(e) == ~table[e].published IN
  SelectSeq(SubSeq(order, 1, Min(limit, Len(order))), Unpublished)

\* ---------------------------------------------------- create_claim, by step
\* create_claim after publish_claim_created returned: the idempotency write when
\* a key was given, the response otherwise
AfterPublish(rq) ==
  IF rq.key = NoKey
    THEN [rq EXCEPT !.pc = "done", !.status = "ok", !.response = rq.claim]
    ELSE [rq EXCEPT !.pc = "idem"]

\* a request arrives; started_after: the requests already answered by then
ReqStart(r) ==
  /\ req[r].pc = "idle"
  /\ \E k \in Tokens \cup {NoKey}, b \in Bodies :
       req' = [req EXCEPT ![r] = [@ EXCEPT !.key = k, !.body = b,
                 !.started_after = {q \in Reqs : req[q].pc = "done"},
                 !.pc = IF k = NoKey THEN "create" ELSE "lookup"]]
  /\ UNCHANGED <<claims, outbox, scanOrder, idem, topic, attempted,
                 sweepPc, sweepItems, processed_count>>
  /\ UNCHANGED <<gateway, ingest>>

\* ReqLookup going on to create the claim although a response was cached
ReqLookupIgnoresHit(r) ==
  /\ req[r].pc = "lookup"
  /\ \E read_ok \in BOOLEAN :
       LET cached_response == get_response(idem, req[r].key, req[r].body, read_ok) IN
       req' = [req EXCEPT ![r] =
                 [@ EXCEPT !.pc = "create",
                           !.lookup = IF cached_response # NoClaim THEN "hit"
                                      ELSE IF read_ok THEN "miss" ELSE "error"]]
  /\ UNCHANGED <<claims, outbox, scanOrder, idem, topic, attempted,
                 sweepPc, sweepItems, processed_count>>
  /\ UNCHANGED <<gateway, ingest>>

\* ReqLookup with every read error raised to the caller
ReqLookupRaisesAll(r) ==
  /\ req[r].pc = "lookup"
  /\ \/ LET cached_response == get_response(idem, req[r].key, req[r].body, TRUE) IN
        req' = [req EXCEPT ![r] =
                  IF cached_response # NoClaim
                    THEN [@ EXCEPT !.pc = "done", !.status = "ok", !.lookup = "hit",
                                   !.response = cached_response]
                    ELSE [@ EXCEPT !.pc = "create", !.lookup = "miss"]]
     \/ \E l \in {"error", "raised"} :
          req' = [req EXCEPT ![r] =
                    [@ EXCEPT !.pc = "done", !.status = "error", !.lookup = l]]
  /\ UNCHANGED <<claims, outbox, scanOrder, idem, topic, attempted,
                 sweepPc, sweepItems, processed_count>>
  /\ UNCHANGED <<gateway, ingest>>

\* get_response, and the return of the cached response when there is one. A
\* read that raises ClientError (the store answered with an error), KeyError or
\* JSONDecodeError is caught in get_response, which returns None; any other
\* exception of get_item (a BotoCoreError: no connection, timeout) is raised
\* through create_claim to the caller
ReqLookup(r) ==
  /\ req[r].pc = "lookup"
  /\ \/ \E read_ok \in BOOLEAN :
          LET cached_response ==
                get_response(idem, req[r].key, req[r].body, read_ok) IN
          req' = [req EXCEPT ![r] =
                    IF cached_response # NoClaim
                      THEN [@ EXCEPT !.pc = "done", !.status = "ok",
                                     !.lookup = "hit",
                                     !.response = cached_response]
                      ELSE [@ EXCEPT !.pc = "create",
                                     !.lookup = IF read_ok THEN "miss" ELSE "error"]]
     \/ req' = [req EXCEPT ![r] =
                  [@ EXCEPT !.pc = "done", !.status = "error", !.lookup = "raised"]]
  /\ UNCHANGED <<claims, outbox, scanOrder, idem, topic, attempted,
                 sweepPc, sweepItems, processed_count>>
  /\ UNCHANGED <<gateway, ingest>>

\* ReqCreateClaim with the idempotency record written first, before the claim
ReqCreateClaimReservesFirst(r) ==
  /\ req[r].pc = "create"
  /\ idem' = IF req[r].key = NoKey THEN idem
             ELSE put_if_absent(idem, req[r].key, req[r].body, r, <<"idem", r>>)
  /\ \/ /\ claims' = Put(claims, r, req[r].body)
        /\ req' = [req EXCEPT ![r] = [@ EXCEPT !.claim = r, !.pc = "store_outbox"]]
     \/ /\ req' = [req EXCEPT ![r] = [@ EXCEPT !.pc = "done", !.status = "error"]]
        /\ UNCHANGED claims
  /\ UNCHANGED <<outbox, scanOrder, topic, attempted,
                 sweepPc, sweepItems, processed_count>>
  /\ UNCHANGED <<gateway, ingest>>

\* ClaimRepository.create_claim: put_item of a claim with a fresh id
ReqCreateClaim(r) ==
  /\ req[r].pc = "create"
  /\ \/ /\ claims' = Put(claims, r, req[r].body)
        /\ req' = [req EXCEPT ![r] = [@ EXCEPT !.claim = r, !.pc = "store_outbox"]]
     \/ /\ req' = [req EXCEPT ![r] = [@ EXCEPT !.pc = "done", !.status = "error"]]
        /\ UNCHANGED claims
  /\ UNCHANGED <<outbox, scanOrder, idem, topic, attempted,
                 sweepPc, sweepItems, processed_count>>
  /\ UNCHANGED <<gateway, ingest>>

\* ReqStoreOutbox with the store failure logged and dropped instead of raised:
\* publish_claim_created goes on to publish_event
ReqStoreOutboxSwallowed(r) ==
  /\ req[r].pc = "store_outbox"
  /\ \/ /\ \E p \in 1..(Len(scanOrder) + 1) :
             scanOrder' = Placed(scanOrder, outbox, r, p)
        /\ outbox' = Put(outbox, r, OutboxItem(r, req[r].claim, <<"store", r>>))
        /\ req' = [req EXCEPT ![r] = [@ EXCEPT !.pc = "publish"]]
     \/ /\ req' = [req EXCEPT ![r] = [@ EXCEPT !.pub = "store_failed", !.pc = "publish"]]
        /\ UNCHANGED <<outbox, scanOrder>>
  /\ UNCHANGED <<claims, idem, topic, attempted,
                 sweepPc, sweepItems, processed_count>>
  /\ UNCHANGED <<gateway, ingest>>

\* publish_claim_created, first call: _store_outbox_event; a failure is raised,
\* caught by publish_claim_created and turned into the result False
ReqStoreOutbox(r) ==
  /\ req[r].pc = "store_outbox"
  /\ \/ /\ \E p \in 1..(Len(scanOrder) + 1) :
             scanOrder' = Placed(scanOrder, outbox, r, p)
        /\ outbox' = _store_outbox_event(outbox, r, req[r].claim, <<"store", r>>)
        /\ req' = [req EXCEPT ![r] = [@ EXCEPT !.pc = "publish"]]
     \/ /\ req' = [req EXCEPT ![r] = AfterPublish([@ EXCEPT !.pub = "store_failed"])]
        /\ UNCHANGED <<outbox, scanOrder>>
  /\ UNCHANGED <<claims, idem, topic, attempted,
                 sweepPc, sweepItems, processed_count>>
  /\ UNCHANGED <<gateway, ingest>>

\* ReqPublish with no except clause around publish_event: its failure reaches
\* create_claim's caller
ReqPublishRaises(r) ==
  /\ req[r].pc = "publish"
  /\ \E outcome \in PublishOutcomes :
       /\ topic' = IF outcome = "ok"
                     THEN [topic EXCEPT ![r] = Min(@ + 1, DeliveryCap)] ELSE topic
       /\ req' = [req EXCEPT ![r] =
                    IF outcome = "ok"
                      THEN [@ EXCEPT !.pc = "mark"]
                      ELSE IF outcome = "no_message_id"
                        THEN AfterPublish([@ EXCEPT !.pub = "publish_failed"])
                        ELSE [@ EXCEPT !.pub = "publish_failed", !.pc = "done",
                                       !.status = "error"]]
  /\ attempted' = attempted \cup {r}
  /\ UNCHANGED <<claims, outbox, scanOrder, idem,
                 sweepPc, sweepItems, processed_count>>
  /\ UNCHANGED <<gateway, ingest>>

\* publish_claim_created, second call: publish_event
ReqPublish(r) ==
  /\ req[r].pc = "publish"
  /\ \E outcome \in PublishOutcomes :
       /\ topic' = publish_event(topic, r, outcome)
       /\ req' = [req EXCEPT ![r] =
                    IF outcome = "ok"
                      THEN [@ EXCEPT !.pc = "mark"]
                      ELSE AfterPublish([@ EXCEPT !.pub = "publish_failed"])]
  /\ attempted' = attempted \cup {r}
  /\ UNCHANGED <<claims, outbox, scanOrder, idem,
                 sweepPc, sweepItems, processed_count>>
  /\ UNCHANGED <<gateway, ingest>>

\* publish_claim_created, third call: _mark_outbox_event_published, whose
\* failure is logged and dropped
ReqMark(r) ==
  /\ req[r].pc = "mark"
  /\ \/ /\ \E p \in 1..(Len(scanOrder) + 1) :
             scanOrder' = Placed(scanOrder, outbox, r, p)
        /\ outbox' = _mark_outbox_event_published(outbox, r, <<"inline", r>>)
        /\ req' = [req EXCEPT ![r] = AfterPublish([@ EXCEPT !.pub = "marked"])]
     \/ /\ req' = [req EXCEPT ![r] = AfterPublish([@ EXCEPT !.pub = "mark_failed"])]
        /\ UNCHANGED <<outbox, scanOrder>>
  /\ UNCHANGED <<claims, idem, topic, attempted,
                 sweepPc, sweepItems, processed_count>>
  /\ UNCHANGED <<gateway, ingest>>

\* put_if_absent and the response: stored (True), already there (False), or a
\* store error raised to the caller; create_claim does not read the result
ReqIdemPut(r) ==
  /\ req[r].pc = "idem"
  /\ \/ /\ idem' = put_if_absent(idem, req[r].key, req[r].body, req[r].claim,
                              <<"idem", r>>)
        /\ req' = [req EXCEPT ![r] = [@ EXCEPT !.pc = "done", !.status = "ok",
                      !.stored = IF idem' # idem THEN "true" ELSE "false",
                      !.response = req[r].claim]]
     \/ /\ req' = [req EXCEPT ![r] = [@ EXCEPT !.pc = "done", !.stored = "error",
                      !.status = "error"]]
        /\ UNCHANGED idem
  /\ UNCHANGED <<claims, outbox, scanOrder, topic, attempted,
                 sweepPc, sweepItems, processed_count>>
  /\ UNCHANGED <<gateway, ingest>>

\* the process dies while the request is in flight
ReqCrash(r) ==
  /\ req[r].pc \in {"lookup", "create", "store_outbox", "publish", "mark", "idem"}
  /\ req' = [req EXCEPT ![r] = [@ EXCEPT !.pc = "crashed"]]
  /\ UNCHANGED <<claims, outbox, scanOrder, idem, topic, attempted,
                 sweepPc, sweepItems, processed_count>>
  /\ UNCHANGED <<gateway, ingest>>

\* ------------------------------------------------ idempotency records: expiry
\* ttl_hours have gone by since the put_item of a record: its TTL is in the past
TtlPasses ==
  /\ \E key \in DOMAIN idem :
       /\ idem[key].TTL = "ahead"
       /\ idem' = [idem EXCEPT ![key].TTL = "past"]
  /\ UNCHANGED <<claims, outbox, scanOrder, topic, attempted, req,
                 sweepPc, sweepItems, processed_count>>
  /\ UNCHANGED <<gateway, ingest>>

\* the store purges a record whose TTL is in the past, some time after it passed
TtlDelete ==
  /\ \E key \in DOMAIN idem :
       /\ idem[key].TTL = "past"
       /\ idem' = [k \in (DOMAIN idem) \ {key} |-> idem[k]]
  /\ UNCHANGED <<claims, outbox, scanOrder, topic, attempted, req,
                 sweepPc, sweepItems, processed_count>>
  /\ UNCHANGED <<gateway, ingest>>

\* ------------------------------------------- process_outbox_events, by step
\* the scan; a failure is caught and the run returns 0
SweepScan ==
  /\ sweepPc = "idle"
  /\ \/ /\ sweepItems' = Scan(scanOrder, outbox, ScanLimit)
        /\ sweepPc' = "publish"
     \/ /\ UNCHANGED <<sweepItems, sweepPc>>
  /\ UNCHANGED processed_count
  /\ UNCHANGED <<claims, outbox, scanOrder, idem, topic, attempted, req>>
  /\ UNCHANGED <<gateway, ingest>>

\* publish_event for the next item; a failure is caught and the loop goes on
SweepPublish ==
  /\ sweepPc = "publish"
  /\ sweepItems # <<>>
  /\ \E outcome \in PublishOutcomes :
       /\ topic' = publish_event(topic, Head(sweepItems), outcome)
       /\ IF outcome = "ok"
            THEN sweepPc' = "mark" /\ UNCHANGED sweepItems
            ELSE sweepItems' = Tail(sweepItems) /\ UNCHANGED sweepPc
  /\ attempted' = attempted \cup {Head(sweepItems)}
  /\ UNCHANGED <<claims, outbox, scanOrder, idem, req, processed_count>>
  /\ UNCHANGED <<gateway, ingest>>

\* SweepMark counting the record only when the update of the record was applied
SweepMarkCountsMarked ==
  /\ sweepPc = "mark"
  /\ \/ /\ \E p \in 1..(Len(scanOrder) + 1) :
             scanOrder' = Placed(scanOrder, outbox, Head(sweepItems), p)
        /\ outbox' = _mark_outbox_event_published(outbox, Head(sweepItems),
                                                 <<"sweep", Head(sweepItems)>>)
        /\ processed_count' = processed_count + 1
     \/ UNCHANGED <<outbox, scanOrder, processed_count>>
  /\ sweepItems' = Tail(sweepItems)
  /\ sweepPc' = "publish"
  /\ UNCHANGED <<claims, idem, topic, attempted, req>>
  /\ UNCHANGED <<gateway, ingest>>

\* _mark_outbox_event_published for the item just published, then the count
SweepMark ==
  /\ sweepPc = "mark"
  /\ \/ /\ \E p \in 1..(Len(scanOrder) + 1) :
             scanOrder' = Placed(scanOrder, outbox, Head(sweepItems), p)
        /\ outbox' = _mark_outbox_event_published(outbox, Head(sweepItems),
                                                 <<"sweep", Head(sweepItems)>>)
     \/ UNCHANGED <<outbox, scanOrder>>
  /\ processed_count' = processed_count + 1
  /\ sweepItems' = Tail(sweepItems)
  /\ sweepPc' = "publish"
  /\ UNCHANGED <<claims, idem, topic, attempted, req>>
  /\ UNCHANGED <<gateway, ingest>>

\* the loop is over: return processed_count
SweepReturn ==
  /\ sweepPc = "publish"
  /\ sweepItems = <<>>
  /\ sweepPc' = "idle"
  /\ processed_count' = 0
  /\ UNCHANGED <<claims, outbox, scanOrder, idem, topic, attempted, req,
                 sweepItems>>
  /\ UNCHANGED <<gateway, ingest>>

Next ==
  \/ \E r \in Reqs : ReqStart(r)
  \/ \E r \in Reqs : ReqLookup(r)
  \/ \E r \in Reqs : ReqCreateClaim(r)
  \/ \E r \in Reqs : ReqStoreOutbox(r)
  \/ \E r \in Reqs : ReqPublish(r)
  \/ \E r \in Reqs : ReqMark(r)
  \/ \E r \in Reqs : ReqIdemPut(r)
  \/ \E r \in Reqs : ReqCrash(r)
  \/ SweepScan
  \/ SweepPublish
  \/ SweepMark
  \/ SweepReturn

\* the service within one retention window (ttl_hours) of its first request
Spec == Init /\ [][Next]_vars

\* the service over any length of time: idempotency records reach their TTL
RetentionNext ==
  \/ Next
  \/ TtlPasses
  \/ TtlDelete

RetentionSpec == Init /\ [][RetentionNext]_vars

\* ------------------------------------------------- the sweep under fairness
\* The tables hold ScanLimit published records of earlier requests; request 1 is
\* still to come and the other requests were answered with an error before they
\* wrote anything (their claim insert failed).
Failed ==
  [NewReq EXCEPT !.pc = "done", !.body = "body-a", !.status = "error"]

FairInit ==
  /\ Tables(ScanLimit)
  /\ req = [r \in Reqs |-> IF r = 1 THEN NewReq ELSE Failed]
  /\ GatewayInit
  /\ IngestIdle

SweepStep == SweepScan \/ SweepPublish \/ SweepMark \/ SweepReturn

\* the store answers the scan, the topic accepts the message of e, the store
\* applies the update of e
ScanAnswered == SweepScan /\ sweepPc' = "publish"
TopicAccepts(e) == SweepPublish /\ Head(sweepItems) = e /\ sweepPc' = "mark"
UpdateApplied(e) ==
  SweepMark /\ Head(sweepItems) = e /\ outbox'[e].publishedAt = <<"sweep", e>>

\* the sweep keeps running, and the store and the topic are available again
\* and again
Fairness ==
  /\ WF_vars(SweepStep)
  /\ SF_vars(ScanAnswered)
  /\ \A e \in Reqs : SF_vars(TopicAccepts(e)) /\ SF_vars(UpdateApplied(e))

FairSpec == FairInit /\ [][Next]_vars /\ Fairness

\* ------------------------------------------------- the sweep on a backlog
\* a request answered 201 whose inline publish failed: its outbox record is
\* stored with published = false
Unpublished(r) ==
  [NewReq EXCEPT !.pc = "done", !.body = "body-a", !.claim = r,
                 !.pub = "publish_failed", !.status = "ok", !.response = r]

\* The tables hold ScanLimit published records of earlier requests and the
\* unpublished records of requests 1 and 2, which a scan meets at any place;
\* no request is running.
BatchInit ==
  /\ claims = [k \in EventIds |-> IF k \in Reqs THEN "body-a" ELSE OldBody]
  /\ outbox = [k \in EventIds |->
                 IF k \in Reqs THEN OutboxItem(k, k, <<"store", k>>) ELSE OldItem(k)]
  /\ \E p1 \in 1..(ScanLimit + 1), p2 \in 1..(ScanLimit + 2) :
       scanOrder = InsertAt(InsertAt([i \in 1..ScanLimit |-> FirstOld + i - 1],
                                     p1, 1), p2, 2)
  /\ idem = <<>>
  /\ topic = [e \in EventIds |-> IF e \in Reqs THEN 0 ELSE 1]
  /\ attempted = EventIds
  /\ sweepPc = "idle"
  /\ sweepItems = <<>>
  /\ processed_count = 0
  /\ req = [r \in Reqs |-> Unpublished(r)]
  /\ GatewayInit
  /\ IngestIdle

BatchNext == SweepScan \/ SweepPublish \/ SweepMark \/ SweepReturn

BatchSpec == BatchInit /\ [][BatchNext]_vars

\* ------------------------------------------------- gateway: CircuitBreaker
\* CircuitBreaker.can_execute at time t: the answer and the state it leaves
can_execute(cb, t) ==
  IF cb.state = "CLOSED" THEN [allowed |-> TRUE, state |-> cb.state]
  ELSE IF cb.state = "OPEN"
    THEN IF cb.last_failure_time # None
              /\ (t - cb.last_failure_time) > recovery_timeout
           THEN [allowed |-> TRUE, state |-> "HALF_OPEN"]
           ELSE [allowed |-> FALSE, state |-> cb.state]
  ELSE IF cb.state = "HALF_OPEN" THEN [allowed |-> TRUE, state |-> cb.state]
  ELSE [allowed |-> FALSE, state |-> cb.state]

\* record_success that leaves failure_count as it is
RecordSuccessKeepsCount(cb) ==
  [cb EXCEPT !.state = "CLOSED"]

\* record_success that zeroes the count and leaves the state as it is
RecordSuccessKeepsState(cb) ==
  [cb EXCEPT !.failure_count = 0]

\* CircuitBreaker.record_success
record_success(cb) ==
  [cb EXCEPT !.failure_count = 0, !.state = "CLOSED"]

\* record_failure that opens only above the threshold
RecordFailureAboveThreshold(cb, t) ==
  [cb EXCEPT !.failure_count = @ + 1, !.last_failure_time = t,
             !.state = IF cb.failure_count + 1 > failure_threshold
                         THEN "OPEN" ELSE @]

\* record_failure that keeps the last_failure_time of a HALF_OPEN breaker
RecordFailureKeepsOpenedAt(cb, t) ==
  [cb EXCEPT !.failure_count = @ + 1,
             !.last_failure_time = IF cb.state = "HALF_OPEN" THEN @ ELSE t,
             !.state = IF cb.failure_count + 1 >= failure_threshold
                         THEN "OPEN" ELSE @]

\* record_failure whose count stops at the threshold
RecordFailureSaturates(cb, t) ==
  [cb EXCEPT !.failure_count = Min(@ + 1, failure_threshold),
             !.last_failure_time = t,
             !.state = IF cb.failure_count + 1 >= failure_threshold
                         THEN "OPEN" ELSE @]

\* CircuitBreaker.record_failure at time t
record_failure(cb, t) ==
  [cb EXCEPT !.failure_count = @ + 1, !.last_failure_time = t,
             !.state = IF cb.failure_count + 1 >= failure_threshold
                         THEN "OPEN" ELSE @]

\* ------------------------------------- gateway: _make_request_with_retry
\* Entered with the refusal recorded as a failure of the target
EnteredCountsRejection(c, k, cb) ==
  LET gate == can_execute(cb, now) IN
  /\ circuit_breaker' =
       [circuit_breaker EXCEPT ![k] =
          IF gate.allowed THEN [cb EXCEPT !.state = gate.state]
                          ELSE record_failure(cb, now)]
  /\ call' = [call EXCEPT ![c] =
                IF gate.allowed
                  THEN [NewCall EXCEPT !.pc = "request", !.client = k, !.sent = 1,
                                       !.gate = gate.state]
                  ELSE [NewCall EXCEPT !.pc = "done", !.client = k,
                                       !.gate = gate.state,
                                       !.result = "breaker_open"]]

\* the call of c on a client whose breaker is cb: can_execute, then the first
\* request or the "Circuit breaker is OPEN" exception
Entered(c, k, cb) ==
  LET gate == can_execute(cb, now) IN
  /\ circuit_breaker' = [circuit_breaker EXCEPT ![k] = [cb EXCEPT !.state = gate.state]]
  /\ call' = [call EXCEPT ![c] =
                IF gate.allowed
                  THEN [NewCall EXCEPT !.pc = "request", !.client = k, !.sent = 1,
                                       !.gate = gate.state]
                  ELSE [NewCall EXCEPT !.pc = "done", !.client = k,
                                       !.gate = gate.state,
                                       !.result = "breaker_open"]]

\* a holder of the shared client calls _make_request_with_retry
SharedCall(c) ==
  /\ call[c].pc \in {"idle", "done"}
  /\ Entered(c, SharedClient, circuit_breaker[SharedClient])
  /\ UNCHANGED <<now, target_failures>>
  /\ UNCHANGED <<claimsvc, limiter, ingest>>

\* a gateway request to the target: the handler's service comes from
\* get_gateway_service, which builds a new ResilientServiceClient, and the
\* handler calls _make_request_with_retry on it
GatewayRequest(c) ==
  /\ call[c].pc \in {"idle", "done"}
  /\ Entered(c, RequestClient(c), CircuitBreaker)
  /\ UNCHANGED <<now, target_failures>>
  /\ UNCHANGED <<claimsvc, limiter, ingest>>

\* target_failures after a call on client k ended
Counted(k, failed) ==
  IF k = SharedClient THEN target_failures
  ELSE IF failed THEN Min(target_failures + 1, failure_threshold) ELSE 0

\* CallResponse with the loop running over range(max_retries + 2)
CallResponseExtraRetry(c) ==
  LET k == call[c].client IN
  /\ call[c].pc = "request"
  /\ \E response \in Responses :
       IF response = "ok"
         THEN /\ circuit_breaker' = [circuit_breaker EXCEPT ![k] = record_success(@)]
              /\ call' = [call EXCEPT ![c].pc = "done", ![c].result = "ok",
                                      ![c].error = "none"]
              /\ target_failures' = Counted(k, FALSE)
         ELSE IF call[c].attempt < max_retries + 1
           THEN /\ call' = [call EXCEPT ![c].pc = "sleep", ![c].error = response,
                                        ![c].delay = 2 ^ call[c].attempt]
                /\ UNCHANGED <<circuit_breaker, target_failures>>
           ELSE /\ circuit_breaker[k].failure_count < MaxFailures
                /\ circuit_breaker' =
                     [circuit_breaker EXCEPT ![k] = record_failure(@, now)]
                /\ call' = [call EXCEPT ![c].pc = "done", ![c].result = "error",
                                        ![c].error = response]
                /\ target_failures' = Counted(k, TRUE)
  /\ UNCHANGED now
  /\ UNCHANGED <<claimsvc, limiter, ingest>>

\* CallResponse with no retry: the first failed attempt is recorded on the
\* breaker and raised
CallResponseFailsFast(c) ==
  LET k == call[c].client IN
  /\ call[c].pc = "request"
  /\ \E response \in Responses :
       IF response = "ok"
         THEN /\ circuit_breaker' = [circuit_breaker EXCEPT ![k] = record_success(@)]
              /\ call' = [call EXCEPT ![c].pc = "done", ![c].result = "ok",
                                      ![c].error = "none"]
              /\ target_failures' = Counted(k, FALSE)
         ELSE /\ circuit_breaker[k].failure_count < MaxFailures
              /\ circuit_breaker' =
                   [circuit_breaker EXCEPT ![k] = record_failure(@, now)]
              /\ call' = [call EXCEPT ![c].pc = "done", ![c].result = "error",
                                      ![c].error = response]
              /\ target_failures' = Counted(k, TRUE)
  /\ UNCHANGED now
  /\ UNCHANGED <<claimsvc, limiter, ingest>>

\* CallResponse with record_failure called in the except clause of every attempt
CallResponseCountsAttempts(c) ==
  LET k == call[c].client IN
  /\ call[c].pc = "request"
  /\ \E response \in Responses :
       IF response = "ok"
         THEN /\ circuit_breaker' = [circuit_breaker EXCEPT ![k] = record_success(@)]
              /\ call' = [call EXCEPT ![c].pc = "done", ![c].result = "ok",
                                      ![c].error = "none"]
              /\ target_failures' = Counted(k, FALSE)
         ELSE /\ circuit_breaker[k].failure_count < MaxFailures
              /\ circuit_breaker' =
                   [circuit_breaker EXCEPT ![k] = record_failure(@, now)]
              /\ IF call[c].attempt < max_retries
                   THEN /\ call' = [call EXCEPT ![c].pc = "sleep",
                                       ![c].error = response,
                                       ![c].delay = 2 ^ call[c].attempt]
                        /\ UNCHANGED target_failures
                   ELSE /\ call' = [call EXCEPT ![c].pc = "done",
                                       ![c].result = "error", ![c].error = response]
                        /\ target_failures' = Counted(k, TRUE)
  /\ UNCHANGED now
  /\ UNCHANGED <<claimsvc, limiter, ingest>>

\* the awaited request of c completes: a result is recorded as a success and
\* returned; an exception (raise_for_status on a 4xx or 5xx answer, or a
\* transport error) leads to asyncio.sleep(2**attempt), or after the last
\* attempt to record_failure and the exception
CallResponse(c) ==
  LET k == call[c].client IN
  /\ call[c].pc = "request"
  /\ \E response \in Responses :
       IF response = "ok"
         THEN /\ circuit_breaker' = [circuit_breaker EXCEPT ![k] = record_success(@)]
              /\ call' = [call EXCEPT ![c].pc = "done", ![c].result = "ok",
                                      ![c].error = "none"]
              /\ target_failures' = Counted(k, FALSE)
         ELSE IF call[c].attempt < max_retries
           THEN /\ call' = [call EXCEPT ![c].pc = "sleep", ![c].error = response,
                                        ![c].delay = 2 ^ call[c].attempt]
                /\ UNCHANGED <<circuit_breaker, target_failures>>
           ELSE /\ circuit_breaker[k].failure_count < MaxFailures
                /\ circuit_breaker' =
                     [circuit_breaker EXCEPT ![k] = record_failure(@, now)]
                /\ call' = [call EXCEPT ![c].pc = "done", ![c].result = "error",
                                        ![c].error = response]
                /\ target_failures' = Counted(k, TRUE)
  /\ UNCHANGED now
  /\ UNCHANGED <<claimsvc, limiter, ingest>>

\* asyncio.sleep(delay) of c returns (how far the clock moved meanwhile is
\* Tick's matter): the next attempt's request goes out
CallWake(c) ==
  /\ call[c].pc = "sleep"
  /\ call' = [call EXCEPT ![c].pc = "request", ![c].attempt = @ + 1,
                          ![c].sent = @ + 1, ![c].delay = 0]
  /\ UNCHANGED <<now, circuit_breaker, target_failures>>
  /\ UNCHANGED <<claimsvc, limiter, ingest>>

\* the number of steps the clock took to reach t
Ticks(t) == ((t - 1) % recovery_timeout) + ((t - 1) \div recovery_timeout)

\* time passes: a second, or the length of the recovery window
Tick ==
  /\ Ticks(now) < MaxTicks
  /\ \E d \in {1, recovery_timeout} : now' = now + d
  /\ UNCHANGED <<circuit_breaker, call, target_failures>>
  /\ UNCHANGED <<claimsvc, limiter, ingest>>

\* one ResilientServiceClient held by all callers
BreakerNext ==
  \/ \E c \in Calls : SharedCall(c)
  \/ \E c \in Calls : CallResponse(c)
  \/ \E c \in Calls : CallWake(c)
  \/ Tick

BreakerSpec == Init /\ [][BreakerNext]_vars

\* the gateway as wired in routers/api.py
GatewayNext ==
  \/ \E c \in Calls : GatewayRequest(c)
  \/ \E c \in Calls : CallResponse(c)
  \/ \E c \in Calls : CallWake(c)
  \/ Tick

GatewaySpec == Init /\ [][GatewayNext]_vars

\* ------------------------------------------------- gateway: rate limiter
\* time.time() at clock tick t is t / Sub seconds; timestamps of the memory
\* backend are kept in ticks, and int(time.time()) is whole seconds
Seconds(t) == t \div Sub

\* the while loop of MemoryRateLimiter.is_allowed: popleft while the oldest
\* timestamp is before window_start
RECURSIVE PopExpired(_, _)
PopExpired(q, window_start) ==
  IF q # <<>> /\ Head(q) < window_start
    THEN PopExpired(Tail(q), window_start)
    ELSE q

\* MemoryRateLimiter.is_allowed with a prune that also drops the timestamp
\* lying on window_start
MemoryIsAllowedInclusivePrune(q, lim, win, t) ==
  LET window_start == t - win * Sub
      kept == SelectSeq(q, LAMBDA x : x > window_start)
  IN IF Len(kept) >= lim
       THEN [allowed |-> FALSE, requests |-> kept]
       ELSE [allowed |-> TRUE, requests |-> Append(kept, t)]

\* MemoryRateLimiter.is_allowed on the deque q of the key at tick t: the
\* decision and the deque it leaves
MemoryIsAllowed(q, lim, win, t) ==
  LET window_start == t - win * Sub
      kept == PopExpired(q, window_start)
  IN IF Len(kept) >= lim
       THEN [allowed |-> FALSE, requests |-> kept]
       ELSE [allowed |-> TRUE, requests |-> Append(kept, t)]

\* str(now): the member under which a request is recorded in the sorted set
str(n) == <<"str", n>>

\* the sorted set as the Redis server sees it at tick t: gone once its expiry
\* has passed
Live(z, t) ==
  IF z.expire_at # None /\ t >= z.expire_at THEN EmptyKey ELSE z

\* ZREMRANGEBYSCORE key min max: both ends inclusive; a set left empty is
\* deleted with its expiry
zremrangebyscore(z, min, max) ==
  LET left == {x \in z.members : ~(min <= x.score /\ x.score <= max)}
  IN IF left = {} THEN EmptyKey ELSE [z EXCEPT !.members = left]

\* ZCARD key
zcard(z) == Cardinality(z.members)

\* ZADD key score member: a member already present only has its score updated
zadd(z, member, score) ==
  [z EXCEPT !.members = {x \in @ : x.member # member}
                          \cup {[member |-> member, score |-> score]}]

\* EXPIRE key seconds, received by the server at tick t
expire(z, seconds, t) ==
  IF z.members = {} THEN z ELSE [z EXCEPT !.expire_at = t + seconds * Sub]

\* RedisRateLimiter.is_allowed with every operation succeeding and no other
\* call in between, at tick t: the decision and the sorted set it leaves
RedisIsAllowed(z, lim, win, t) ==
  LET now_s == Seconds(t)
      window_start == now_s - win
      pruned == zremrangebyscore(Live(z, t), 0, window_start)
      current_count == zcard(pruned)
  IN IF current_count >= lim
       THEN [allowed |-> FALSE, key |-> pruned]
       ELSE [allowed |-> TRUE,
             key |-> expire(zadd(pruned, str(now_s), now_s), win, t)]

\* one check of the key on each backend, one after the other, nothing else
\* running in between
IsAllowed ==
  /\ Len(decisions) < MaxChecks
  /\ LET m == MemoryIsAllowed(requests, rl_limit, rl_window, clock)
         r == RedisIsAllowed(zkey, rl_limit, rl_window, clock)
     IN /\ requests' = m.requests
        /\ zkey' = r.key
        /\ decisions' = Append(decisions,
             [t |-> clock, memory |-> m.allowed, redis |-> r.allowed])
  /\ UNCHANGED <<clock, rl_limit, rl_window, check>>
  /\ UNCHANGED <<claimsvc, breaker, ingest>>

\* time passes
ClockTick ==
  /\ clock < MaxClock
  /\ clock' = clock + 1
  /\ UNCHANGED <<rl_limit, rl_window, requests, zkey, check, decisions>>
  /\ UNCHANGED <<claimsvc, breaker, ingest>>

\* the limiters checked with any of the limits and windows
LimiterInit ==
  /\ Tables(0)
  /\ req = [r \in Reqs |-> NewReq]
  /\ BreakerInit
  /\ \E l \in Limits, w \in Windows : LimiterStart(l, w)
  /\ IngestIdle

LimiterNext == IsAllowed \/ ClockTick

LimiterSpec == LimiterInit /\ [][LimiterNext]_vars

\* the except branch of RedisRateLimiter.is_allowed answering False
FailClosed(ck) ==
  [ck EXCEPT !.pc = "done", !.allowed = "false", !.error = TRUE]

\* the except branch of RedisRateLimiter.is_allowed: log, return True
FailOpen(ck) ==
  [ck EXCEPT !.pc = "done", !.allowed = "true", !.error = TRUE]

\* await self.get_redis(), then now = int(time.time()) and window_start
RlEnter(i) ==
  /\ check[i].pc = "idle"
  /\ \E ok \in BOOLEAN :
       IF ok
         THEN check' = [check EXCEPT ![i].pc = "prune",
                                     ![i].now = Seconds(clock)]
         ELSE check' = [check EXCEPT ![i] = FailOpen(@)]
  /\ UNCHANGED <<clock, rl_limit, rl_window, requests, zkey, decisions>>
  /\ UNCHANGED <<claimsvc, breaker, ingest>>

\* await redis_client.zremrangebyscore(redis_key, 0, window_start)
RlPrune(i) ==
  /\ check[i].pc = "prune"
  /\ \E ok \in BOOLEAN :
       IF ok
         THEN /\ zkey' = zremrangebyscore(Live(zkey, clock), 0,
                                          check[i].now - rl_window)
              /\ check' = [check EXCEPT ![i].pc = "count"]
         ELSE /\ check' = [check EXCEPT ![i] = FailOpen(@)]
              /\ UNCHANGED zkey
  /\ UNCHANGED <<clock, rl_limit, rl_window, requests, decisions>>
  /\ UNCHANGED <<claimsvc, breaker, ingest>>

\* await redis_client.zcard(redis_key) and the comparison with limit
RlCount(i) ==
  /\ check[i].pc = "count"
  /\ \E ok \in BOOLEAN :
       IF ok
         THEN LET current_count == zcard(Live(zkey, clock)) IN
              IF current_count >= rl_limit
                THEN check' = [check EXCEPT ![i].pc = "done",
                                            ![i].allowed = "false"]
                ELSE check' = [check EXCEPT ![i].pc = "add"]
         ELSE check' = [check EXCEPT ![i] = FailOpen(@)]
  /\ UNCHANGED <<clock, rl_limit, rl_window, requests, zkey, decisions>>
  /\ UNCHANGED <<claimsvc, breaker, ingest>>

\* await redis_client.zadd(redis_key, {str(now): now})
RlAdd(i) ==
  /\ check[i].pc = "add"
  /\ \E ok \in BOOLEAN :
       IF ok
         THEN /\ zkey' = zadd(Live(zkey, clock), str(check[i].now),
                              check[i].now)
              /\ check' = [check EXCEPT ![i].pc = "expire"]
         ELSE /\ check' = [check EXCEPT ![i] = FailOpen(@)]
              /\ UNCHANGED zkey
  /\ UNCHANGED <<clock, rl_limit, rl_window, requests, decisions>>
  /\ UNCHANGED <<claimsvc, breaker, ingest>>

\* await redis_client.expire(redis_key, window) and return True
RlExpire(i) ==
  /\ check[i].pc = "expire"
  /\ \E ok \in BOOLEAN :
       IF ok
         THEN /\ zkey' = expire(Live(zkey, clock), rl_window, clock)
              /\ check' = [check EXCEPT ![i].pc = "done",
                                        ![i].allowed = "true"]
         ELSE /\ check' = [check EXCEPT ![i] = FailOpen(@)]
              /\ UNCHANGED zkey
  /\ UNCHANGED <<clock, rl_limit, rl_window, requests, decisions>>
  /\ UNCHANGED <<claimsvc, breaker, ingest>>

\* concurrent checks of the key on the Redis backend, from one or several
\* gateway instances
RedisNext ==
  \/ \E i \in Checks : RlEnter(i)
  \/ \E i \in Checks : RlPrune(i)
  \/ \E i \in Checks : RlCount(i)
  \/ \E i \in Checks : RlAdd(i)
  \/ \E i \in Checks : RlExpire(i)
  \/ ClockTick

RedisSpec == LimiterInit /\ [][RedisNext]_vars

\* ------------------------------------------------- ingest: Lambda handler
\* json.loads(body): whether the body of the record parses
body_parses(kind) == kind # "bad_body"

\* _extract_event_from_sns_envelope: the event of the record; a Message that
\* is not JSON gives {}
_extract_event_from_sns_envelope(kind) ==
  IF kind = "bad_message" THEN "empty" ELSE kind

\* EventValidator.validate_event: event.get("eventType") raises on a value
\* that is no dict; an eventType without schema and a ValidationError give
\* False
validate_event(event) ==
  CASE event = "not_object" -> "raises"
    [] event \in {"policy", "claim"} -> "true"
    [] OTHER -> "false"

\* the body of the handler's loop for one record, up to the decision to
\* persist: "raised", "skipped" or "persist"
Screened(kind) ==
  IF ~body_parses(kind) THEN "raised"
  ELSE LET domain_event == _extract_event_from_sns_envelope(kind) IN
       IF domain_event = "empty" THEN "skipped"
       ELSE IF validate_event(domain_event) = "raises" THEN "raised"
       ELSE IF validate_event(domain_event) = "false" THEN "skipped"
       ELSE "persist"

\* Lambda invokes the handler with a batch of SQS records
HandlerStart ==
  /\ records = <<>> \/ batch_response # NoResponse
  /\ \E b \in Batches : records' = b
  /\ outcomes' = <<>>
  /\ failures' = <<>>
  /\ batch_response' = NoResponse
  /\ UNCHANGED <<bronze, indexed>>
  /\ UNCHANGED <<claimsvc, gateway>>

\* one turn of the loop: the record is skipped, or its event is put in the
\* bronze bucket and its document indexed (a failure of the index call is
\* logged and dropped), or an exception is caught and the record listed
HandlerRecord ==
  LET i == Len(outcomes) + 1 IN
  /\ batch_response = NoResponse
  /\ i <= Len(records)
  /\ \/ /\ Screened(records[i]) = "skipped"
        /\ outcomes' = Append(outcomes, "skipped")
        /\ UNCHANGED <<failures, bronze, indexed>>
     \/ /\ Screened(records[i]) = "raised"
        /\ outcomes' = Append(outcomes, "raised")
        /\ failures' = Append(failures, i)
        /\ UNCHANGED <<bronze, indexed>>
     \/ /\ Screened(records[i]) = "persist"
        /\ \E put_ok \in BOOLEAN, index_ok \in BOOLEAN :
             IF put_ok
               THEN /\ bronze' = bronze \cup {i}
                    /\ indexed' = IF index_ok THEN indexed \cup {i} ELSE indexed
                    /\ outcomes' = Append(outcomes, "stored")
                    /\ UNCHANGED failures
               ELSE /\ outcomes' = Append(outcomes, "raised")
                    /\ failures' = Append(failures, i)
                    /\ UNCHANGED <<bronze, indexed>>
  /\ UNCHANGED <<records, batch_response>>
  /\ UNCHANGED <<claimsvc, gateway>>

\* return {"batchItemFailures": failures}
HandlerReturn ==
  /\ batch_response = NoResponse
  /\ records # <<>>
  /\ Len(outcomes) = Len(records)
  /\ batch_response' = <<"batchItemFailures", failures>>
  /\ UNCHANGED <<records, outcomes, failures, bronze, indexed>>
  /\ UNCHANGED <<claimsvc, gateway>>

IngestNext == HandlerStart \/ HandlerRecord \/ HandlerReturn

IngestSpec == Init /\ [][IngestNext]_vars

\* ------------------------------------------------------------------ claims
\* the requests that repeat one idempotency token with one body
SameRequest(r1, r2) ==
  /\ r1 # r2
  /\ req[r1].key # NoKey
  /\ req[r1].key = req[r2].key
  /\ req[r1].body = req[r2].body
  /\ req[r1].pc # "idle" /\ req[r2].pc # "idle"

\* the claims that requests r1 and r2 created
ClaimsOf(r1, r2) == {r1, r2} \cap DOMAIN claims

\* C1: publish_event is first called for an event only when the event's outbox
\* item is stored and unpublished, and never for an event whose outbox put_item
\* failed.
WriteBeforePublish ==
  /\ [][\A e \in Reqs : (e \notin attempted /\ e \in attempted')
          => (e \in DOMAIN outbox /\ ~outbox[e].published)]_vars
  /\ [](\A r \in Reqs : req[r].pub = "store_failed" => r \notin attempted)

\* C1 witness: one request's outbox insert failed and it was answered, another
\* request's event was handed to publish_event
WriteBeforePublishWitness ==
  \E r1, r2 \in Reqs :
    /\ req[r1].pub = "store_failed" /\ req[r1].pc = "done"
    /\ r2 \in attempted /\ r2 \in DOMAIN outbox

\* C2: every stored outbox record is eventually published to the topic and
\* marked published, under a fair sweep and an available store and topic.
AtLeastOnceDelivery ==
  \A e \in Reqs :
    (e \in DOMAIN outbox)
      ~> (e \in DOMAIN outbox /\ outbox[e].published /\ topic[e] > 0)

\* C3: every create request answered with success for a claim it created has an
\* outbox record for its ClaimCreated event.
SuccessHasOutboxRecord ==
  \A r \in Reqs :
    (req[r].pc = "done" /\ req[r].status = "ok" /\ req[r].response = r)
      => r \in DOMAIN outbox

PublishedAtWrittenOnce ==
  [][\A e \in DOMAIN outbox :
       outbox[e].publishedAt # NoTime
         => outbox'[e].publishedAt = outbox[e].publishedAt]_vars

MarkFailureRepublished ==
  \A r \in Reqs : (req[r].pub = "mark_failed") ~> (topic[r] >= 2)

\* C8: the sweep publishes no event whose inline publish is still to come.
SweepSkipsInFlight ==
  \A r \in Reqs : req[r].pc = "publish" => topic[r] = 0

\* C9: a request that arrives after an equal request (same token, same body) was
\* answered with success and left its idempotency record is answered with the
\* stored response, and the two leave one claim record.
SequentialIdempotency ==
  \A r1, r2 \in Reqs :
    LET key == generate_key(req[r1].key, req[r1].body) IN
    ( /\ SameRequest(r1, r2)
      /\ r1 \in req[r2].started_after
      /\ req[r1].status = "ok"
      /\ key \in DOMAIN idem
      /\ req[r2].pc = "done" /\ req[r2].status = "ok" )
    => /\ req[r2].response = idem[key].ResponseData
       /\ Cardinality(ClaimsOf(r1, r2)) = 1

\* C10: two concurrent equal requests, both finding no idempotency record and
\* both answered with success, leave exactly one claim record.
ConcurrentSingleClaim ==
  \A r1, r2 \in Reqs :
    ( /\ SameRequest(r1, r2)
      /\ req[r1].lookup = "miss" /\ req[r2].lookup = "miss"
      /\ req[r1].pc = "done" /\ req[r1].status = "ok"
      /\ req[r2].pc = "done" /\ req[r2].status = "ok" )
    => Cardinality(ClaimsOf(r1, r2)) = 1

\* C11: a request whose conditional insert found the record of an equal request
\* is answered with the response stored in that record.
RaceLoserReturnsWinner ==
  \A r \in Reqs :
    LET key == generate_key(req[r].key, req[r].body) IN
    (req[r].pc = "done" /\ req[r].status = "ok" /\ req[r].stored = "false")
      => /\ key \in DOMAIN idem
         /\ req[r].response = idem[key].ResponseData

\* C12: put_if_absent stores the record and returns True when the key is absent,
\* and returns False leaving the table as it is when the key is present; of the
\* equal requests within one retention window at most one is returned True.
PutIfAbsentOnce ==
  /\ [][\A r \in Reqs :
          (req[r].pc = "idem" /\ req'[r].pc = "done" /\ req'[r].status = "ok")
            => LET key == generate_key(req[r].key, req[r].body) IN
               IF key \in DOMAIN idem
                 THEN req'[r].stored = "false" /\ idem' = idem
                 ELSE /\ req'[r].stored = "true"
                      /\ DOMAIN idem' = (DOMAIN idem) \cup {key}
                      /\ idem'[key].ResponseData = req[r].claim
                      /\ \A k \in DOMAIN idem : idem'[k] = idem[k]]_vars
  /\ [](\A r1, r2 \in Reqs :
          SameRequest(r1, r2)
            => ~(req[r1].stored = "true" /\ req[r2].stored = "true"))

\* C12 witness: of two equal requests that both ran put_if_absent, one was
\* returned True and the other False, and the record is the first one's
PutIfAbsentOnceWitness ==
  \E r1, r2 \in Reqs :
    /\ SameRequest(r1, r2)
    /\ req[r1].stored = "true" /\ req[r2].stored = "false"
    /\ idem[generate_key(req[r1].key, req[r1].body)].ResponseData = r1

\* the requests that carry one idempotency token with different bodies
SameTokenOtherBody(r1, r2) ==
  /\ r1 # r2
  /\ req[r1].key # NoKey
  /\ req[r1].key = req[r2].key
  /\ req[r1].body # req[r2].body
  /\ req[r1].pc # "idle" /\ req[r2].pc # "idle"

ExpiredRecordNotServed ==
  [][\A r \in Reqs :
       LET key == generate_key(req[r].key, req[r].body) IN
       (req[r].pc = "lookup" /\ key \in DOMAIN idem /\ idem[key].TTL = "past")
         => req'[r].lookup # "hit"]_vars

\* C15: a request answered with an error because its idempotency insert failed
\* left no claim record and no published event.
NoPhantomRequest ==
  \A r \in Reqs :
    (req[r].pc = "done" /\ req[r].status = "error" /\ req[r].stored = "error")
      => r \notin DOMAIN claims /\ topic[r] = 0

\* the breaker of the client that the callers share
Shared == circuit_breaker[SharedClient]

\* seconds since the last recorded failure of breaker cb
Elapsed(cb) == now - cb.last_failure_time

\* c enters _make_request_with_retry in this step
Enters(c) == call[c].pc \in {"idle", "done"} /\ call'[c] # call[c]

\* C16: every change of the shared breaker's state is CLOSED to OPEN with
\* failure_count at the threshold or above, OPEN to HALF_OPEN with more than
\* recovery_timeout elapsed since the last failure, HALF_OPEN to CLOSED, or
\* HALF_OPEN to OPEN.
BreakerTransitionsLegal ==
  [][LET a == Shared
         b == circuit_breaker'[SharedClient] IN
     a.state # b.state
       => \/ /\ a.state = "CLOSED" /\ b.state = "OPEN"
             /\ b.failure_count >= failure_threshold
          \/ /\ a.state = "OPEN" /\ b.state = "HALF_OPEN"
             /\ Elapsed(a) > recovery_timeout
          \/ a.state = "HALF_OPEN" /\ b.state = "CLOSED"
          \/ a.state = "HALF_OPEN" /\ b.state = "OPEN"]_vars

\* C17: while failure_count is at the threshold or above and no more than
\* recovery_timeout has elapsed since the last failure, can_execute answers
\* False; a success recorded while HALF_OPEN leaves failure_count 0 and the
\* state CLOSED.
ThresholdGatesUntilRecovery ==
  /\ [](\A k \in Clients :
          LET cb == circuit_breaker[k] IN
          (cb.failure_count >= failure_threshold /\ Elapsed(cb) <= recovery_timeout)
            => ~can_execute(cb, now).allowed)
  /\ [][\A c \in Calls :
          LET k == call[c].client IN
          ( /\ call[c].pc = "request" /\ call'[c].result = "ok"
            /\ circuit_breaker[k].state = "HALF_OPEN" )
          => /\ circuit_breaker'[k].failure_count = 0
             /\ circuit_breaker'[k].state = "CLOSED"]_vars

\* C17 witness: the threshold was reached, exactly recovery_timeout has elapsed
\* since the last failure, and a call was refused
ThresholdGatesUntilRecoveryWitness ==
  /\ Shared.failure_count >= failure_threshold
  /\ Shared.state = "OPEN"
  /\ Elapsed(Shared) = recovery_timeout
  /\ \E c \in Calls : call[c].result = "breaker_open"

\* C18: with failure_threshold 5, a call that enters after five calls failed in
\* a row and within recovery_timeout of the last failure is refused with no
\* request sent; a call that enters an OPEN breaker later than that sends its
\* request, the breaker being HALF_OPEN; and when a call that entered a
\* HALF_OPEN breaker succeeds the breaker is CLOSED with failure_count 0.
FiveFailuresScenario ==
  /\ [](failure_threshold = 5)
  /\ [][\A c \in Calls :
          Enters(c)
            => /\ (Shared.failure_count >= 5 /\ Elapsed(Shared) <= recovery_timeout)
                    => /\ call'[c].result = "breaker_open"
                       /\ call'[c].pc = "done"
                       /\ call'[c].sent = 0
               /\ (Shared.state = "OPEN" /\ Elapsed(Shared) > recovery_timeout)
                    => /\ call'[c].pc = "request"
                       /\ call'[c].sent = 1
                       /\ circuit_breaker'[SharedClient].state = "HALF_OPEN"]_vars
  /\ [][\A c \in Calls :
          ( /\ call[c].pc = "request" /\ call[c].gate = "HALF_OPEN"
            /\ call'[c].result = "ok" )
          => /\ circuit_breaker'[SharedClient].state = "CLOSED"
             /\ circuit_breaker'[SharedClient].failure_count = 0]_vars

\* C18 witness: a call was refused without a request, and after the recovery
\* window a call that entered the HALF_OPEN breaker succeeded and closed it
FiveFailuresScenarioWitness ==
  \E c1, c2 \in Calls :
    /\ call[c1].result = "breaker_open" /\ call[c1].sent = 0
    /\ call[c2].result = "ok" /\ call[c2].gate = "HALF_OPEN"
    /\ Shared.state = "CLOSED" /\ Shared.failure_count = 0
    /\ Shared.last_failure_time # None

\* C19: a gateway request that arrives after failure_threshold gateway requests
\* to the target failed in a row, the last within recovery_timeout, is refused
\* as breaker-open.
BreakerOutlivesRequest ==
  [][\A c \in Calls :
       ( /\ Enters(c)
         /\ target_failures >= failure_threshold
         /\ \E k \in Clients :
              /\ circuit_breaker[k].last_failure_time # None
              /\ Elapsed(circuit_breaker[k]) <= recovery_timeout )
       => call'[c].result = "breaker_open"]_vars

\* C20: can_execute leaves the breaker's state as it is, whenever it is called.
CanExecutePure ==
  \A k \in Clients :
    can_execute(circuit_breaker[k], now).state = circuit_breaker[k].state

\* the calls admitted to a HALF_OPEN breaker whose outcome is not recorded yet
Trials == {c \in Calls : call[c].gate = "HALF_OPEN" /\ call[c].pc \in {"request", "sleep"}}

\* C21: while the shared breaker is HALF_OPEN at most one admitted call is in
\* flight.
SingleTrialInHalfOpen ==
  Shared.state = "HALF_OPEN" => Cardinality(Trials) <= 1

\* the request of an attempt of c goes out in this step
Sends(c) == call[c].pc # "request" /\ call'[c].pc = "request"

\* C22: no request goes out, as a first attempt or as a retry, while the breaker
\* of the call's client is OPEN with no more than recovery_timeout elapsed since
\* the last failure.
NoRequestWhileOpen ==
  [][\A c \in Calls :
       LET cb == circuit_breaker[call'[c].client] IN
       Sends(c) => ~(cb.state = "OPEN" /\ Elapsed(cb) <= recovery_timeout)]_vars

\* C23: a call sends at most max_retries + 1 requests; it ends with an error
\* only after exactly max_retries + 1 failed attempts, carrying the last
\* attempt's exception; after a failed attempt other than the last it sleeps
\* 2^attempt seconds (1, 2, 4) with the breaker untouched, and the last failed
\* attempt adds one to failure_count with no sleep.
RetriesExhaust ==
  /\ [](\A c \in Calls :
          /\ call[c].sent <= max_retries + 1
          /\ call[c].pc = "sleep"
               => /\ call[c].attempt < max_retries
                  /\ call[c].delay = 2 ^ call[c].attempt
                  /\ call[c].delay \in {1, 2, 4}
          /\ call[c].result = "error"
               => /\ call[c].sent = max_retries + 1
                  /\ call[c].delay = 0
                  /\ call[c].error \in Responses \ {"ok"})
  /\ [][\A c \in Calls :
          LET k == call[c].client IN
          /\ (call[c].pc = "request" /\ call'[c].pc = "sleep")
               => circuit_breaker' = circuit_breaker
          /\ (call[c].pc = "request" /\ call'[c].result = "error")
               => /\ call'[c].pc = "done"
                  /\ circuit_breaker'[k].failure_count
                       = circuit_breaker[k].failure_count + 1
                  /\ circuit_breaker'[k].last_failure_time = now]_vars

\* C23 witness: a call on the shared client ended with the error of its fourth
\* attempt, and it is the one failure on record
RetriesExhaustWitness ==
  \E c \in Calls :
    /\ call[c].result = "error" /\ call[c].error = "http_5xx"
    /\ call[c].sent = 4 /\ call[c].attempt = 3
    /\ Shared.failure_count = 1 /\ Shared.last_failure_time = now

\* C24: a successful attempt ends the call: the success is recorded on the
\* breaker (failure_count 0, CLOSED), the call is done with its result and sends
\* nothing more until it is called again, and the failed attempts before it
\* recorded nothing.
FirstSuccessEndsCall ==
  /\ [][\A c \in Calls :
          LET k == call[c].client IN
          (call[c].pc = "request" /\ call'[c].result = "ok")
            => /\ call'[c].pc = "done"
               /\ call'[c].sent = call[c].sent
               /\ circuit_breaker'[k] =
                    [circuit_breaker[k] EXCEPT !.failure_count = 0,
                                               !.state = "CLOSED"]]_vars
  /\ [][\A c \in Calls :
          (call[c].pc = "done" /\ ~Enters(c)) => call'[c] = call[c]]_vars
  /\ [][\A c \in Calls :
          (call[c].pc = "request" /\ call'[c].pc = "sleep")
            => /\ circuit_breaker'[call[c].client].failure_count
                    = circuit_breaker[call[c].client].failure_count
               /\ circuit_breaker'[call[c].client].last_failure_time
                    = circuit_breaker[call[c].client].last_failure_time]_vars

\* C24 witness: a call succeeded at its third attempt and no failure was ever
\* recorded
FirstSuccessEndsCallWitness ==
  \E c \in Calls :
    /\ call[c].result = "ok" /\ call[c].attempt = 2 /\ call[c].sent = 3
    /\ Shared.failure_count = 0 /\ Shared.last_failure_time = None

\* C25: an attempt answered with an HTTP 4xx ends the call with the error at
\* once, with no retry and with the breaker untouched.
NonRetryablePropagates ==
  [][\A c \in Calls :
       (call[c].pc = "request" /\ call'[c] # call[c] /\ call'[c].error = "http_4xx")
         => /\ call'[c].pc = "done"
            /\ call'[c].result = "error"
            /\ circuit_breaker' = circuit_breaker]_vars

\* C26: a call refused by can_execute sends nothing, does not sleep and leaves
\* every breaker as it is.
RejectionIsNotFailure ==
  [][\A c \in Calls :
       (Enters(c) /\ call'[c].result = "breaker_open")
         => /\ call'[c].pc = "done"
            /\ call'[c].sent = 0
            /\ call'[c].attempt = 0
            /\ call'[c].delay = 0
            /\ circuit_breaker' = circuit_breaker]_vars

\* C26 witness: a call was refused by the OPEN breaker a second after the fifth
\* failure, which is still the last failure on record
RejectionIsNotFailureWitness ==
  \E c \in Calls :
    /\ call[c].result = "breaker_open" /\ call[c].gate = "OPEN"
    /\ call[c].sent = 0
    /\ Shared.failure_count = failure_threshold
    /\ Elapsed(Shared) = 1

\* the checks of the log that the memory backend admitted
Admitted == {i \in 1..Len(decisions) : decisions[i].memory}

\* C27: MemoryRateLimiter, for one key, limit N and window W, over checks at
\* non-decreasing times: no window of W seconds holds more than N admitted
\* timestamps, and a check is admitted exactly when fewer than N of the earlier
\* admitted timestamps are at or after now - W -- so the (N+1)-th request of a
\* window is rejected, and admission resumes once the oldest admitted
\* timestamp is older than now - W.
MemorySlidingWindow ==
  /\ \A a \in 0..MaxClock :
       Cardinality({i \in Admitted : /\ a <= decisions[i].t
                                     /\ decisions[i].t <= a + rl_window * Sub})
         <= rl_limit
  /\ \A i \in 1..Len(decisions) :
       decisions[i].memory
         <=> Cardinality({j \in Admitted :
                            /\ j < i
                            /\ decisions[j].t >= decisions[i].t - rl_window * Sub})
               < rl_limit

\* limit 2: two requests admitted, a third rejected in their window, and a
\* later one admitted after the window slid past the oldest timestamp
MemorySlidingWindowWitness ==
  /\ rl_limit = 2
  /\ Len(decisions) = MaxChecks
  /\ decisions[1].memory /\ decisions[2].memory
  /\ ~decisions[3].memory
  /\ decisions[4].memory
  /\ decisions[4].t - decisions[1].t > rl_window * Sub
  /\ decisions[4].t - decisions[2].t <= rl_window * Sub

\* C28: on every sequence of checks made one at a time with Redis reachable,
\* RedisRateLimiter.is_allowed decides as MemoryRateLimiter.is_allowed does,
\* also for requests within one second and timestamps on the window boundary.
BackendsAgree ==
  \A i \in 1..Len(decisions) : decisions[i].redis = decisions[i].memory

\* the checks on the Redis backend that returned True with no operation failing
Granted == {i \in Checks : check[i].allowed = "true" /\ ~check[i].error}

\* C29: under any interleaving of concurrent checks of one key on the Redis
\* backend, at most limit requests are admitted within any window.
RedisNeverOverAdmits ==
  \A a \in 0..Seconds(MaxClock) :
    Cardinality({i \in Granted : /\ a <= check[i].now
                                 /\ check[i].now <= a + rl_window})
      <= rl_limit

\* C30: when an operation of the Redis backend raises during a check,
\* is_allowed returns True and the call ends without an error for the caller.
FailOpenOnError ==
  /\ \A i \in Checks :
       check[i].error => check[i].pc = "done" /\ check[i].allowed = "true"
  /\ \A i \in Checks :
       check[i].pc = "done" => check[i].allowed \in {"true", "false"}

\* the count raised for one check while the sorted set was full: the check was
\* allowed, and a check that could count was rejected
FailOpenOnErrorWitness ==
  /\ \E i \in Checks : check[i].error /\ check[i].allowed = "true"
  /\ \E i \in Checks : ~check[i].error /\ check[i].allowed = "false"
  /\ zcard(Live(zkey, clock)) >= rl_limit

\* C31: when the lookup finds a cached response for the request's token and
\* body, create_claim returns that response and does nothing else: no claim
\* record, no outbox record, no publish and no idempotency write.
CachedHitNoEffect ==
  /\ [](\A r \in Reqs :
          req[r].lookup = "hit"
            => /\ req[r].pc = "done"
               /\ req[r].status = "ok"
               /\ req[r].claim = NoClaim
               /\ req[r].stored = "none"
               /\ r \notin DOMAIN claims
               /\ r \notin DOMAIN outbox
               /\ r \notin attempted)
  /\ [][\A r \in Reqs :
          (req[r].pc = "lookup" /\ req'[r].lookup = "hit")
            => /\ req'[r].response
                    = idem[generate_key(req[r].key, req[r].body)].ResponseData
               /\ UNCHANGED <<claims, outbox, scanOrder, idem, topic, attempted>>]_vars

\* a request answered from the record that an earlier request stored
CachedHitNoEffectWitness ==
  \E r, q \in Reqs :
    /\ r # q
    /\ req[r].lookup = "hit"
    /\ req[r].response = req[q].claim
    /\ req[q].stored = "true"
    /\ q \in DOMAIN claims

\* the work left in a run of process_outbox_events
SweepLeft ==
  2 * Len(sweepItems) + (IF sweepPc = "publish" THEN 1 ELSE 0)

\* C32: one run of process_outbox_events handles at most 10 scanned records,
\* each once; a failed publish leaves its record published = false and the run
\* goes on to the next record; the counter grows by one exactly for each record
\* whose publish succeeded; and the run always comes to its return.
SweepRunBounded ==
  /\ [](/\ Len(sweepItems) <= ScanLimit
        /\ \A i, j \in 1..Len(sweepItems) :
             sweepItems[i] = sweepItems[j] => i = j
        /\ sweepPc = "idle" => sweepItems = <<>>
        /\ sweepPc = "publish" =>
             \A i \in 1..Len(sweepItems) : ~outbox[sweepItems[i]].published
        /\ sweepPc # "idle" => ENABLED BatchNext)
  /\ [][/\ (sweepPc = "idle" /\ sweepPc' # "idle")
             => /\ sweepPc' = "publish"
                /\ processed_count' = 0
                /\ UNCHANGED <<outbox, topic, attempted>>
        /\ (sweepPc = "publish" /\ sweepPc' = "publish")
             => /\ sweepItems' = Tail(sweepItems)
                /\ Head(sweepItems) \in attempted'
                /\ UNCHANGED <<outbox, topic, processed_count>>
        /\ (sweepPc = "publish" /\ sweepPc' = "mark")
             => /\ topic' = publish_event(topic, Head(sweepItems), "ok")
                /\ UNCHANGED <<outbox, sweepItems, processed_count>>
        /\ sweepPc = "mark"
             => /\ sweepPc' = "publish"
                /\ sweepItems' = Tail(sweepItems)
                /\ processed_count' = processed_count + 1
                /\ UNCHANGED topic
        /\ (sweepPc = "publish" /\ sweepPc' = "idle") => sweepItems = <<>>
        /\ sweepPc # "idle" => SweepLeft' < SweepLeft]_vars

\* both unpublished records were in the batch: the publish of the first failed,
\* the record is still published = false, and the second was published and
\* counted
SweepRunBoundedWitness ==
  /\ sweepPc = "publish"
  /\ sweepItems = <<>>
  /\ processed_count = 1
  /\ \E e, f \in Reqs :
       /\ e # f
       /\ ~outbox[e].published /\ topic[e] = 0
       /\ outbox[f].published /\ topic[f] = 1

\* C33: a record_failure while the breaker is HALF_OPEN moves it to OPEN and
\* sets last_failure_time to now, so can_execute rejects calls for a full
\* recovery_timeout counted from that failure.
HalfOpenFailureReopens ==
  [][\A k \in Clients :
       (/\ circuit_breaker[k].state = "HALF_OPEN"
        /\ circuit_breaker'[k].failure_count = circuit_breaker[k].failure_count + 1)
         => /\ circuit_breaker'[k].state = "OPEN"
            /\ circuit_breaker'[k].last_failure_time = now
            /\ \A d \in 0..recovery_timeout :
                 ~can_execute(circuit_breaker'[k], now + d).allowed]_vars

\* the trial call admitted in HALF_OPEN failed after the breaker had been open
\* for more than recovery_timeout: the breaker is OPEN again, from now
HalfOpenFailureReopensWitness ==
  \E c \in Calls :
    /\ call[c].client = SharedClient
    /\ call[c].gate = "HALF_OPEN"
    /\ call[c].result = "error"
    /\ circuit_breaker[SharedClient].state = "OPEN"
    /\ circuit_breaker[SharedClient].last_failure_time = now
    /\ now > recovery_timeout

\* the calls on client k whose last attempt fails in this step, and those
\* whose attempt succeeds in this step
Exhausts(k) ==
  {c \in Calls : /\ call[c].client = k
                 /\ call[c].pc = "request"
                 /\ call'[c].pc = "done"
                 /\ call'[c].result = "error"}
Succeeds(k) ==
  {c \in Calls : /\ call[c].client = k
                 /\ call[c].pc = "request"
                 /\ call'[c].pc = "done"
                 /\ call'[c].result = "ok"}

\* C34: no breaker update is lost under concurrent callers: every call that
\* exhausts its retries adds exactly one to failure_count, only a recorded
\* success changes the count otherwise, so k exhausted calls with no success in
\* between leave failure_count = k; and the breaker is OPEN as soon as the
\* count is at failure_threshold.
NoLostBreakerUpdate ==
  [][\A k \in Clients :
       LET before == circuit_breaker[k]
           after == circuit_breaker'[k]
       IN /\ Exhausts(k) # {}
               => /\ after.failure_count
                       = before.failure_count + Cardinality(Exhausts(k))
                  /\ after.failure_count >= failure_threshold
                       => after.state = "OPEN"
          /\ Succeeds(k) # {} => after.failure_count = 0
          /\ (Exhausts(k) = {} /\ Succeeds(k) = {})
               => after.failure_count = before.failure_count]_vars

\* two callers of the shared client were in flight together, and the count is
\* above the threshold: a failure of each was counted
NoLostBreakerUpdateWitness ==
  /\ circuit_breaker[SharedClient].failure_count > failure_threshold
  /\ circuit_breaker[SharedClient].state = "OPEN"
  /\ \A c \in Calls :
       /\ call[c].client = SharedClient
       /\ call[c].pc = "done"
       /\ call[c].result = "error"
       /\ call[c].gate = "CLOSED"

\* the kinds of record whose event the handler does not recognize
Unrecognized ==
  {"bad_message", "empty", "not_object", "unknown_type", "invalid_schema"}

\* the messageIds listed in the handler's response
Listed == {failures[j] : j \in 1..Len(failures)}

\* C35: the ingest handler ignores events it does not recognize without
\* failing the batch: in its response no record with an empty, unknown or
\* schema-invalid event is listed, every record of the batch was handled, and
\* batchItemFailures holds exactly the records whose processing raised.
IngestIgnoresUnrecognized ==
  batch_response # NoResponse
    => /\ batch_response = <<"batchItemFailures", failures>>
       /\ Len(outcomes) = Len(records)
       /\ \A i \in 1..Len(records) :
            records[i] \in Unrecognized
              => outcomes[i] = "skipped" /\ i \notin Listed
       /\ Listed = {i \in 1..Len(records) : outcomes[i] = "raised"}

\* C36: in every reachable state of every breaker: CLOSED implies
\* failure_count < failure_threshold; OPEN and HALF_OPEN imply
\* failure_count >= failure_threshold and last_failure_time set.
BreakerStateInvariant ==
  \A k \in Clients :
    LET cb == circuit_breaker[k] IN
    /\ cb.state \in {"CLOSED", "OPEN", "HALF_OPEN"}
    /\ cb.state = "CLOSED" => cb.failure_count < failure_threshold
    /\ cb.state \in {"OPEN", "HALF_OPEN"}
         => /\ cb.failure_count >= failure_threshold
            /\ cb.last_failure_time # None

\* the shared breaker is HALF_OPEN, its count at the threshold or above, with
\* the trial call in flight
BreakerStateInvariantWitness ==
  /\ Shared.state = "HALF_OPEN"
  /\ Shared.failure_count >= failure_threshold
  /\ \E c \in Calls : /\ call[c].client = SharedClient
                      /\ call[c].pc = "request"
                      /\ call[c].gate = "HALF_OPEN"

\* C37: the breaker counts calls, not attempts: failure_count grows only in the
\* step in which a call fails its attempt number max_retries + 1, and by one;
\* a failed attempt that is followed by a retry leaves the breaker of its
\* client as it is; and a breaker leaves CLOSED exactly at the
\* failure_threshold-th such call, that is after 5 * 4 = 20 failed requests.
BreakerCountsCalls ==
  /\ failure_threshold * (max_retries + 1) = 20
  /\ [][\A k \in Clients :
          LET before == circuit_breaker[k]
              after == circuit_breaker'[k]
          IN /\ after.failure_count > before.failure_count
                  => /\ after.failure_count = before.failure_count + 1
                     /\ \E c \in Exhausts(k) :
                          /\ call[c].sent = max_retries + 1
                          /\ call[c].attempt = max_retries
             /\ (before.state = "CLOSED" /\ after.state # "CLOSED")
                  => /\ after.state = "OPEN"
                     /\ after.failure_count = failure_threshold
             /\ \A c \in Calls :
                  (/\ call[c].client = k
                   /\ call[c].pc = "request"
                   /\ call'[c].pc = "sleep")
                    => /\ after = before
                       /\ call[c].attempt < max_retries]_vars

\* the fifth exhausted call in a row has just opened the shared breaker: it
\* sent four requests, as each of the four counted before it
BreakerCountsCallsWitness ==
  /\ Shared.state = "OPEN"
  /\ Shared.failure_count = failure_threshold
  /\ Shared.last_failure_time = now
  /\ \E c \in Calls :
       /\ call[c].client = SharedClient
       /\ call[c].result = "error"
       /\ call[c].sent = max_retries + 1

\* C38: all publishes of one outbox record, the inline one and those of the
\* sweep, carry the same envelope eventId, the event_id of the outbox record.
SameEventIdOnRepublish ==
  \A e \in DOMAIN outbox :
    \A m1, m2 \in Envelopes(topic, e) :
      /\ m1.eventId = m2.eventId
      /\ m1.eventId = OutboxEventId(e)

\* C39 as stated: on any error of the read, get_response returns None and
\* create_claim goes on to create the claim.
AnyLookupErrorRunsAsNew ==
  [][\A r \in Reqs :
       (req[r].pc = "lookup" /\ req'[r].lookup \in {"error", "raised"})
         => req'[r].pc = "create"]_vars

\* C39: a read error that get_response catches (ClientError, KeyError,
\* JSONDecodeError) is treated as 'no record' and create_claim goes on to
\* create the claim, also when a record for the token and body exists; a read
\* error of another class is raised and the request ends with no claim created.
CaughtLookupErrorRunsAsNew ==
  /\ [][\A r \in Reqs :
          /\ (req[r].pc = "lookup" /\ req'[r].lookup = "error")
               => /\ req'[r].pc = "create"
                  /\ UNCHANGED <<claims, outbox, idem, topic>>
          /\ (req[r].pc = "lookup" /\ req'[r].lookup = "raised")
               => /\ req'[r].pc = "done"
                  /\ req'[r].status = "error"
                  /\ UNCHANGED <<claims, outbox, idem, topic>>]_vars
  /\ [](\A r \in Reqs :
          req[r].lookup = "raised" => r \notin DOMAIN claims /\ r \notin attempted)

\* a request that arrived after an equal request had stored its record met a
\* ClientError on the lookup and created a second claim
CaughtLookupErrorRunsAsNewWitness ==
  \E r, q \in Reqs :
    LET key == generate_key(req[q].key, req[q].body) IN
    /\ r # q
    /\ SameRequest(r, q)
    /\ q \in req[r].started_after
    /\ req[r].lookup = "error"
    /\ key \in DOMAIN idem
    /\ idem[key].ResponseData = q
    /\ r \in DOMAIN claims /\ q \in DOMAIN claims

\* C40: the idempotency record is written last: a record is written only by a
\* request whose claim is stored and whose publish_claim_created has returned,
\* every stored response names a claim that exists, and a request that stopped
\* after creating its claim and before the idempotency write has left no
\* record.
IdempotencyWrittenLast ==
  /\ [](\A key \in DOMAIN idem : idem[key].ResponseData \in DOMAIN claims)
  /\ [](\A r \in Reqs :
          (req[r].claim # NoClaim /\ req[r].stored \in {"none", "error"})
            => \A key \in DOMAIN idem : idem[key].ResponseData # r)
  /\ [][idem' # idem
          => \E r \in Reqs :
               /\ req[r].pc = "idem"
               /\ req'[r].pc = "done"
               /\ req[r].claim \in DOMAIN claims
               /\ req[r].pub # "none"
               /\ idem' = put_if_absent(idem, req[r].key, req[r].body,
                                        req[r].claim, <<"idem", r>>)]_vars

\* the idempotency write of a request failed after its claim was created and it
\* left no record; the client's retry with the same token and body found none
\* and created a second claim
IdempotencyWrittenLastWitness ==
  \E r, q \in Reqs :
    /\ r # q
    /\ SameRequest(r, q)
    /\ req[r].stored = "error"
    /\ r \in req[q].started_after
    /\ r \in DOMAIN claims
    /\ req[q].lookup = "miss"
    /\ q \in DOMAIN claims
    /\ req[q].stored = "true"
    /\ idem[generate_key(req[q].key, req[q].body)].ResponseData = q

=============================================================================
